---- MODULE Spec2Model ----
(***************************************************************************)
(* Model of lab_2/main.cpp: the reduction (sum and maximum of the even     *)
(* elements, combined as 2*max - sum) computed three times by main():      *)
(* sequentially, by num_threads workers under one std::mutex, and by       *)
(* num_threads workers on two std::atomic accumulators with a              *)
(* compare_exchange_weak retry loop.                                       *)
(*                                                                         *)
(* Indices are 0-based as in the source; arr is a TLA+ sequence, so the    *)
(* element arr[i] of the source is At(i) == arr[i + 1].                    *)
(* A local variable that is out of scope holds a fixed value (0, or the    *)
(* sentinel for current_max), so that dead values do not split states.     *)
(***************************************************************************)
EXTENDS Integers, Sequences, FiniteSets

\* ------------------------------------------------------------------ bounds
\* n = 10000000 and num_threads = 32 in the source; the model draws them
\* from 0..MaxN and 1..MaxW, and the elements from minVal..MaxVal.
MaxN == 3
MaxW == 2
MaxVal == 2

\* the specification with fairness draws n from 0..LiveN
LiveN == 3

\* int is 32 bits wide and long long 64 bits wide in the source; the model
\* scales the widths to the scaled input: an element fits an int, the sum of
\* MaxN elements does not fit an int, and fits a long long.
IntBits == 3
LongBits == 8

\* ------------------------------------------------------- program constants
minVal == 0

\* the array size and the largest element of the source
ArraySize == 10000000
maxVal == 10000

\* mutant: the maximum starts at 0 instead of -1
Sentinel_zero == 1 - 1

\* int max_even = -1; atomic<int> atomic_max(-1)
Sentinel == -1

VARIABLES
    arr,          \* vector<int> arr(n), filled by generateArray
    n,            \* const int n
    num_threads,  \* const int num_threads
    mpc,          \* position of the main thread
    k,            \* position of the range-for of the sequential version
    sum_even,     \* long long sum_even
    max_even,     \* int max_even
    mtx,          \* std::mutex mtx: Free, or the worker that holds it
    chunk,        \* int chunk
    t,            \* loop variable of the spawn loops, index of the join loops
    atomic_sum,   \* atomic<long long> atomic_sum
    atomic_max,   \* atomic<int> atomic_max
    out,          \* what was written to cout: one record per strategy
    pc,           \* pc[w]: position of the thread threads[w]
    start_idx,    \* captured by value by worker w
    end_idx,      \* captured by value by worker w
    i,            \* loop variable of worker w
    x,            \* int x = arr[i] of worker w
    reg,          \* the value of sum_even worker w loaded for sum_even += x
    current_max,  \* int current_max of worker w
    reads,        \* history: reads[idx] lists the workers of the running
                  \* strategy that executed int x = arr[idx]
    folds         \* history: folds[idx] counts the additions of arr[idx] to
                  \* the sum accumulator of the running strategy

vars == <<arr, n, num_threads, mpc, k, sum_even, max_even, mtx, chunk, t,
          atomic_sum, atomic_max, out, pc, start_idx, end_idx, i, x, reg,
          current_max, reads, folds>>

mainVars == <<mpc, k, sum_even, max_even, mtx, chunk, t, atomic_sum,
              atomic_max, out>>
inputVars == <<arr, n, num_threads>>
localVars == <<start_idx, end_idx, i, x, reg, current_max>>
ghostVars == <<reads, folds>>

Free == -1

Values == minVal..MaxVal

Threads == 0..(num_threads - 1)

At(idx) == arr[idx + 1]

\* x % 2 == 0 (C++ remainder; the elements are never negative here)
IsEven(v) == v % 2 = 0

\* a value stored in a two's complement integer of the given width
Wrap(bits, v) == ((v + 2 ^ (bits - 1)) % (2 ^ bits)) - 2 ^ (bits - 1)

\* mutant: the sum and the combined result are kept in an int
AsLongLong_int(v) == Wrap(IntBits, v)

\* the value of a long long / atomic<long long> expression
AsLongLong(v) == Wrap(LongBits, v)

\* 2LL * max - sum
Combine(mx, sm) == AsLongLong(AsLongLong(2 * mx) - sm)

\* int start_idx = t * chunk
StartIdx(th) == th * chunk

\* mutant: the last thread gets no special case, the remainder is dropped
EndIdx_no_remainder(th) == StartIdx(th) + chunk

\* int end_idx = (t == num_threads - 1) ? n : start_idx + chunk
EndIdx(th) == IF th = num_threads - 1 THEN n ELSE StartIdx(th) + chunk

\* ------------------------------------------------------------------- Init
Init ==
    /\ n \in 0..MaxN
    /\ num_threads \in 1..MaxW
    /\ arr \in [1..n -> Values]
    /\ mpc = "seq"
    /\ k = 0
    /\ sum_even = 0
    /\ max_even = Sentinel
    /\ mtx = Free
    /\ chunk = 0
    /\ t = 0
    /\ atomic_sum = 0
    /\ atomic_max = Sentinel
    /\ out = <<>>
    /\ pc = [w \in Threads |-> "none"]
    /\ start_idx = [w \in Threads |-> 0]
    /\ end_idx = [w \in Threads |-> 0]
    /\ i = [w \in Threads |-> 0]
    /\ x = [w \in Threads |-> 0]
    /\ reg = [w \in Threads |-> 0]
    /\ current_max = [w \in Threads |-> Sentinel]
    /\ reads = [idx \in 0..(n - 1) |-> <<>>]
    /\ folds = [idx \in 0..(n - 1) |-> 0]

\* ------------------------------------------------- sequential version
\* mutant: max_even is overwritten by every even element (no x > max_even)
SeqStep_last_even ==
    /\ mpc = "seq"
    /\ k < n
    /\ LET v == At(k) IN
         IF IsEven(v)
         THEN /\ sum_even' = AsLongLong(sum_even + v)
              /\ max_even' = v
         ELSE UNCHANGED <<sum_even, max_even>>
    /\ k' = k + 1
    /\ UNCHANGED <<mpc, mtx, chunk, t, atomic_sum, atomic_max, out>>
    /\ UNCHANGED <<inputVars, ghostVars, pc, localVars>>

\* one iteration of for (int x : arr)
SeqStep ==
    /\ mpc = "seq"
    /\ k < n
    /\ LET v == At(k) IN
         IF IsEven(v)
         THEN /\ sum_even' = AsLongLong(sum_even + v)
              /\ max_even' = IF v > max_even THEN v ELSE max_even
         ELSE UNCHANGED <<sum_even, max_even>>
    /\ k' = k + 1
    /\ UNCHANGED <<mpc, mtx, chunk, t, atomic_sum, atomic_max, out>>
    /\ UNCHANGED <<inputVars, ghostVars, pc, localVars>>

\* result_seq and its report; then the reset before the mutex version
SeqReport ==
    /\ mpc = "seq"
    /\ k = n
    /\ out' = Append(out, [strategy |-> "seq",
                           result |-> Combine(max_even, sum_even),
                           max |-> max_even])
    /\ mpc' = "m_init"
    /\ UNCHANGED <<k, sum_even, max_even, mtx, chunk, t, atomic_sum, atomic_max>>
    /\ UNCHANGED <<inputVars, ghostVars, pc, localVars>>

\* ------------------------------------------------- mutex version: main
\* mutant: the accumulators of the sequential version are not reset
MutexInit_no_reset ==
    /\ mpc = "m_init"
    /\ mtx' = Free
    /\ chunk' = n \div num_threads
    /\ t' = 0
    /\ mpc' = "m_spawn"
    /\ reads' = [idx \in 0..(n - 1) |-> <<>>]
    /\ folds' = [idx \in 0..(n - 1) |-> 0]
    /\ UNCHANGED <<k, sum_even, max_even, atomic_sum, atomic_max, out>>
    /\ UNCHANGED <<inputVars, pc, localVars>>

\* mutant: chunk is rounded up instead of down
MutexInit_chunk_up ==
    /\ mpc = "m_init"
    /\ sum_even' = 0
    /\ max_even' = Sentinel
    /\ mtx' = Free
    /\ chunk' = (n + num_threads - 1) \div num_threads
    /\ t' = 0
    /\ mpc' = "m_spawn"
    /\ reads' = [idx \in 0..(n - 1) |-> <<>>]
    /\ folds' = [idx \in 0..(n - 1) |-> 0]
    /\ UNCHANGED <<k, atomic_sum, atomic_max, out>>
    /\ UNCHANGED <<inputVars, pc, localVars>>

\* sum_even = 0; max_even = -1; mutex mtx; vector<thread> threads; chunk
MutexInit ==
    /\ mpc = "m_init"
    /\ sum_even' = 0
    /\ max_even' = Sentinel
    /\ mtx' = Free
    /\ chunk' = n \div num_threads
    /\ t' = 0
    /\ mpc' = "m_spawn"
    /\ reads' = [idx \in 0..(n - 1) |-> <<>>]
    /\ folds' = [idx \in 0..(n - 1) |-> 0]
    /\ UNCHANGED <<k, atomic_sum, atomic_max, out>>
    /\ UNCHANGED <<inputVars, pc, localVars>>

\* mutant: every worker starts its loop at index 0 instead of start_idx
Spawn_from_zero(first, here, next) ==
    /\ mpc = here
    /\ t < num_threads
    /\ start_idx' = [start_idx EXCEPT ![t] = StartIdx(t)]
    /\ end_idx' = [end_idx EXCEPT ![t] = EndIdx(t)]
    /\ i' = [i EXCEPT ![t] = 0]
    /\ pc' = [pc EXCEPT ![t] = first]
    /\ IF t + 1 < num_threads
       THEN /\ t' = t + 1
            /\ mpc' = here
       ELSE /\ t' = 0
            /\ mpc' = next
    /\ UNCHANGED <<k, sum_even, max_even, mtx, chunk, atomic_sum, atomic_max, out>>
    /\ UNCHANGED <<inputVars, ghostVars, x, reg, current_max>>

\* threads.push_back(thread(...)) for thread t; the thread starts at its for
Spawn(first, here, next) ==
    /\ mpc = here
    /\ t < num_threads
    /\ start_idx' = [start_idx EXCEPT ![t] = StartIdx(t)]
    /\ end_idx' = [end_idx EXCEPT ![t] = EndIdx(t)]
    /\ i' = [i EXCEPT ![t] = StartIdx(t)]
    /\ pc' = [pc EXCEPT ![t] = first]
    /\ IF t + 1 < num_threads
       THEN /\ t' = t + 1
            /\ mpc' = here
       ELSE /\ t' = 0
            /\ mpc' = next
    /\ UNCHANGED <<k, sum_even, max_even, mtx, chunk, atomic_sum, atomic_max, out>>
    /\ UNCHANGED <<inputVars, ghostVars, x, reg, current_max>>

MutexSpawn == Spawn("m_for", "m_spawn", "m_join")

\* mutant: join returns without waiting for the thread
CanJoin_no_wait(th, finished) == TRUE

\* th.join() returns once the thread has finished
CanJoin(th, finished) == pc[th] = finished

Join(finished, here, next) ==
    /\ mpc = here
    /\ t < num_threads
    /\ CanJoin(t, finished)
    /\ IF t + 1 < num_threads
       THEN /\ t' = t + 1
            /\ mpc' = here
       ELSE /\ t' = 0
            /\ mpc' = next
    /\ UNCHANGED <<k, sum_even, max_even, mtx, chunk, atomic_sum, atomic_max, out>>
    /\ UNCHANGED <<inputVars, ghostVars, pc, localVars>>

MutexJoin == Join("m_done", "m_join", "m_result")

\* result_mutex and its report
MutexReport ==
    /\ mpc = "m_result"
    /\ out' = Append(out, [strategy |-> "mutex",
                           result |-> Combine(max_even, sum_even),
                           max |-> max_even])
    /\ mpc' = "a_init"
    /\ UNCHANGED <<k, sum_even, max_even, mtx, chunk, t, atomic_sum, atomic_max>>
    /\ UNCHANGED <<inputVars, ghostVars, pc, localVars>>

\* ----------------------------------------------- mutex version: worker
\* mutant: the lock_guard is declared before the if, so the mutex is taken
\* for every element
MutexFor_lock_all(w) ==
    /\ pc[w] = "m_for"
    /\ IF i[w] < end_idx[w]
       THEN /\ reads' = [reads EXCEPT ![i[w]] = Append(reads[i[w]], w)]
            /\ x' = [x EXCEPT ![w] = At(i[w])]
            /\ pc' = [pc EXCEPT ![w] = "m_lock"]
            /\ i' = i
       ELSE /\ pc' = [pc EXCEPT ![w] = "m_done"]
            /\ UNCHANGED <<x, i, reads>>
    /\ UNCHANGED <<mainVars, inputVars, folds, start_idx, end_idx, reg, current_max>>

\* for (i < end_idx): int x = arr[i]; if (x % 2 == 0)
MutexFor(w) ==
    /\ pc[w] = "m_for"
    /\ IF i[w] < end_idx[w]
       THEN /\ reads' = [reads EXCEPT ![i[w]] = Append(reads[i[w]], w)]
            /\ IF IsEven(At(i[w]))
               THEN /\ x' = [x EXCEPT ![w] = At(i[w])]
                    /\ pc' = [pc EXCEPT ![w] = "m_lock"]
                    /\ i' = i
               ELSE /\ i' = [i EXCEPT ![w] = i[w] + 1]
                    /\ UNCHANGED <<x, pc>>
       ELSE /\ pc' = [pc EXCEPT ![w] = "m_done"]
            /\ UNCHANGED <<x, i, reads>>
    /\ UNCHANGED <<mainVars, inputVars, folds, start_idx, end_idx, reg, current_max>>

\* mutant: the lock is taken without waiting for it to be free
CanLock_no_wait(w) == TRUE

\* lock_guard<mutex> lock(mtx): blocks while another thread holds mtx
CanLock(w) == mtx = Free

MutexLock(w) ==
    /\ pc[w] = "m_lock"
    /\ CanLock(w)
    /\ mtx' = w
    /\ pc' = [pc EXCEPT ![w] = "m_load"]
    /\ UNCHANGED <<mpc, k, sum_even, max_even, chunk, t, atomic_sum, atomic_max, out>>
    /\ UNCHANGED <<inputVars, ghostVars, localVars>>

\* sum_even += x on a plain long long: the load ...
MutexLoadSum(w) ==
    /\ pc[w] = "m_load"
    /\ reg' = [reg EXCEPT ![w] = sum_even]
    /\ pc' = [pc EXCEPT ![w] = "m_store"]
    /\ UNCHANGED <<mainVars, inputVars, ghostVars, start_idx, end_idx, i, x, current_max>>

\* ... and the store
MutexStoreSum(w) ==
    /\ pc[w] = "m_store"
    /\ sum_even' = AsLongLong(reg[w] + x[w])
    /\ folds' = [folds EXCEPT ![i[w]] = folds[i[w]] + 1]
    /\ reads' = reads
    /\ reg' = [reg EXCEPT ![w] = 0]
    /\ pc' = [pc EXCEPT ![w] = "m_max"]
    /\ UNCHANGED <<mpc, k, max_even, mtx, chunk, t, atomic_sum, atomic_max, out>>
    /\ UNCHANGED <<inputVars, start_idx, end_idx, i, x, current_max>>

\* mutant: max_even is set only while it still holds the sentinel
MutexMax_first_only(w) ==
    /\ pc[w] = "m_max"
    /\ max_even' = IF max_even = Sentinel THEN x[w] ELSE max_even
    /\ pc' = [pc EXCEPT ![w] = "m_unlock"]
    /\ UNCHANGED <<mpc, k, sum_even, mtx, chunk, t, atomic_sum, atomic_max, out>>
    /\ UNCHANGED <<inputVars, ghostVars, localVars>>

\* if (x > max_even) max_even = x
MutexMax(w) ==
    /\ pc[w] = "m_max"
    /\ max_even' = IF x[w] > max_even THEN x[w] ELSE max_even
    /\ pc' = [pc EXCEPT ![w] = "m_unlock"]
    /\ UNCHANGED <<mpc, k, sum_even, mtx, chunk, t, atomic_sum, atomic_max, out>>
    /\ UNCHANGED <<inputVars, ghostVars, localVars>>

\* mutant: the mutex is locked by hand and never unlocked
MutexUnlock_keep(w) ==
    /\ pc[w] = "m_unlock"
    /\ x' = [x EXCEPT ![w] = 0]
    /\ i' = [i EXCEPT ![w] = i[w] + 1]
    /\ pc' = [pc EXCEPT ![w] = "m_for"]
    /\ UNCHANGED <<mainVars, inputVars, ghostVars, start_idx, end_idx, reg, current_max>>

\* end of the if block: ~lock_guard releases mtx; then i++
MutexUnlock(w) ==
    /\ pc[w] = "m_unlock"
    /\ mtx' = Free
    /\ x' = [x EXCEPT ![w] = 0]
    /\ i' = [i EXCEPT ![w] = i[w] + 1]
    /\ pc' = [pc EXCEPT ![w] = "m_for"]
    /\ UNCHANGED <<mpc, k, sum_even, max_even, chunk, t, atomic_sum, atomic_max, out>>
    /\ UNCHANGED <<inputVars, ghostVars, start_idx, end_idx, reg, current_max>>

\* ------------------------------------------------ atomic version: main
\* mutant: threads.clear() is missing, the finished threads are kept
AtomicInit_no_clear ==
    /\ mpc = "a_init"
    /\ atomic_sum' = 0
    /\ atomic_max' = Sentinel
    /\ t' = 0
    /\ mpc' = "a_spawn"
    /\ reads' = [idx \in 0..(n - 1) |-> <<>>]
    /\ folds' = [idx \in 0..(n - 1) |-> 0]
    /\ UNCHANGED <<k, sum_even, max_even, mtx, chunk, out>>
    /\ UNCHANGED <<inputVars, pc, localVars>>

\* atomic_sum(0), atomic_max(-1), threads.clear()
AtomicInit ==
    /\ mpc = "a_init"
    /\ atomic_sum' = 0
    /\ atomic_max' = Sentinel
    /\ pc' = [w \in Threads |-> "none"]
    /\ start_idx' = [w \in Threads |-> 0]
    /\ end_idx' = [w \in Threads |-> 0]
    /\ i' = [w \in Threads |-> 0]
    /\ t' = 0
    /\ mpc' = "a_spawn"
    /\ reads' = [idx \in 0..(n - 1) |-> <<>>]
    /\ folds' = [idx \in 0..(n - 1) |-> 0]
    /\ UNCHANGED <<k, sum_even, max_even, mtx, chunk, out>>
    /\ UNCHANGED <<inputVars, x, reg, current_max>>

AtomicSpawn == Spawn("a_for", "a_spawn", "a_join")

AtomicJoin == Join("a_done", "a_join", "a_result")

\* result_atomic and its report; return 0
AtomicReport ==
    /\ mpc = "a_result"
    /\ out' = Append(out, [strategy |-> "atomic",
                           result |-> Combine(atomic_max, atomic_sum),
                           max |-> atomic_max])
    /\ mpc' = "done"
    /\ UNCHANGED <<k, sum_even, max_even, mtx, chunk, t, atomic_sum, atomic_max>>
    /\ UNCHANGED <<inputVars, ghostVars, pc, localVars>>

\* ---------------------------------------------- atomic version: worker
AtomicFor(w) ==
    /\ pc[w] = "a_for"
    /\ IF i[w] < end_idx[w]
       THEN /\ reads' = [reads EXCEPT ![i[w]] = Append(reads[i[w]], w)]
            /\ IF IsEven(At(i[w]))
               THEN /\ x' = [x EXCEPT ![w] = At(i[w])]
                    /\ pc' = [pc EXCEPT ![w] = "a_add"]
                    /\ i' = i
               ELSE /\ i' = [i EXCEPT ![w] = i[w] + 1]
                    /\ UNCHANGED <<x, pc>>
       ELSE /\ pc' = [pc EXCEPT ![w] = "a_done"]
            /\ UNCHANGED <<x, i, reads>>
    /\ UNCHANGED <<mainVars, inputVars, folds, start_idx, end_idx, reg, current_max>>

\* atomic_sum.fetch_add(x, memory_order_relaxed)
AtomicFetchAdd(w) ==
    /\ pc[w] = "a_add"
    /\ atomic_sum' = AsLongLong(atomic_sum + x[w])
    /\ folds' = [folds EXCEPT ![i[w]] = folds[i[w]] + 1]
    /\ reads' = reads
    /\ pc' = [pc EXCEPT ![w] = "a_load"]
    /\ UNCHANGED <<mpc, k, sum_even, max_even, mtx, chunk, t, atomic_max, out>>
    /\ UNCHANGED <<inputVars, localVars>>

\* int current_max = atomic_max.load(memory_order_relaxed)
AtomicLoadMax(w) ==
    /\ pc[w] = "a_load"
    /\ current_max' = [current_max EXCEPT ![w] = atomic_max]
    /\ pc' = [pc EXCEPT ![w] = "a_while"]
    /\ UNCHANGED <<mainVars, inputVars, ghostVars, start_idx, end_idx, i, x, reg>>

\* mutant: the loop condition tests x != current_max instead of x > current_max
AtomicWhile_not_equal(w) ==
    /\ pc[w] \in {"a_while", "a_retry"}
    /\ IF x[w] # current_max[w]
       THEN /\ pc' = [pc EXCEPT ![w] = "a_cas"]
            /\ UNCHANGED <<i, x, current_max>>
       ELSE /\ pc' = [pc EXCEPT ![w] = "a_for"]
            /\ i' = [i EXCEPT ![w] = i[w] + 1]
            /\ x' = [x EXCEPT ![w] = 0]
            /\ current_max' = [current_max EXCEPT ![w] = Sentinel]
    /\ UNCHANGED <<mainVars, inputVars, ghostVars, start_idx, end_idx, reg>>

\* while (x > current_max && ...): the left operand, evaluated on entry
\* ("a_while") and again after a failed exchange ("a_retry"); when false the
\* loop, the if block and the iteration end, then i++
AtomicWhile(w) ==
    /\ pc[w] \in {"a_while", "a_retry"}
    /\ IF x[w] > current_max[w]
       THEN /\ pc' = [pc EXCEPT ![w] = "a_cas"]
            /\ UNCHANGED <<i, x, current_max>>
       ELSE /\ pc' = [pc EXCEPT ![w] = "a_for"]
            /\ i' = [i EXCEPT ![w] = i[w] + 1]
            /\ x' = [x EXCEPT ![w] = 0]
            /\ current_max' = [current_max EXCEPT ![w] = Sentinel]
    /\ UNCHANGED <<mainVars, inputVars, ghostVars, start_idx, end_idx, reg>>

\* mutant: a plain store of x, without comparing atomic_max to current_max
AtomicCasSuccess_blind(w) ==
    /\ pc[w] = "a_cas"
    /\ atomic_max' = x[w]
    /\ pc' = [pc EXCEPT ![w] = "a_for"]
    /\ i' = [i EXCEPT ![w] = i[w] + 1]
    /\ x' = [x EXCEPT ![w] = 0]
    /\ current_max' = [current_max EXCEPT ![w] = Sentinel]
    /\ UNCHANGED <<mpc, k, sum_even, max_even, mtx, chunk, t, atomic_sum, out>>
    /\ UNCHANGED <<inputVars, ghostVars, start_idx, end_idx, reg>>

\* atomic_max.compare_exchange_weak(current_max, x) returns true: atomic_max
\* held current_max and now holds x; the loop and the iteration end, then i++
AtomicCasSuccess(w) ==
    /\ pc[w] = "a_cas"
    /\ atomic_max = current_max[w]
    /\ atomic_max' = x[w]
    /\ pc' = [pc EXCEPT ![w] = "a_for"]
    /\ i' = [i EXCEPT ![w] = i[w] + 1]
    /\ x' = [x EXCEPT ![w] = 0]
    /\ current_max' = [current_max EXCEPT ![w] = Sentinel]
    /\ UNCHANGED <<mpc, k, sum_even, max_even, mtx, chunk, t, atomic_sum, out>>
    /\ UNCHANGED <<inputVars, ghostVars, start_idx, end_idx, reg>>

\* mutant: an if instead of the while: a failed exchange is not retried
AtomicCasFail_give_up(w) ==
    /\ pc[w] = "a_cas"
    /\ pc' = [pc EXCEPT ![w] = "a_for"]
    /\ i' = [i EXCEPT ![w] = i[w] + 1]
    /\ x' = [x EXCEPT ![w] = 0]
    /\ current_max' = [current_max EXCEPT ![w] = Sentinel]
    /\ UNCHANGED <<mainVars, inputVars, ghostVars, start_idx, end_idx, reg>>

\* mutant: the fetch_add is inside the retry loop
AtomicCasFail_add_again(w) ==
    /\ pc[w] = "a_cas"
    /\ current_max' = [current_max EXCEPT ![w] = atomic_max]
    /\ pc' = [pc EXCEPT ![w] = "a_add"]
    /\ UNCHANGED <<mainVars, inputVars, ghostVars, start_idx, end_idx, i, x, reg>>

\* mutant: a failed exchange leaves current_max as it was
AtomicCasFail_stale(w) ==
    /\ pc[w] = "a_cas"
    /\ pc' = [pc EXCEPT ![w] = "a_retry"]
    /\ UNCHANGED <<mainVars, inputVars, ghostVars, localVars>>

\* compare_exchange_weak returns false: current_max is loaded with the value
\* of atomic_max and the loop condition is evaluated again. The weak form may
\* fail although atomic_max holds current_max (a spurious failure), so the
\* step has no guard on atomic_max.
AtomicCasFail(w) ==
    /\ pc[w] = "a_cas"
    /\ current_max' = [current_max EXCEPT ![w] = atomic_max]
    /\ pc' = [pc EXCEPT ![w] = "a_retry"]
    /\ UNCHANGED <<mainVars, inputVars, ghostVars, start_idx, end_idx, i, x, reg>>

\* ------------------------------------------------------------------- Next
Main ==
    \/ SeqStep
    \/ SeqReport
    \/ MutexInit
    \/ MutexSpawn
    \/ MutexJoin
    \/ MutexReport
    \/ AtomicInit
    \/ AtomicSpawn
    \/ AtomicJoin
    \/ AtomicReport

MutexWorker(w) ==
    \/ MutexFor(w)
    \/ MutexLock(w)
    \/ MutexLoadSum(w)
    \/ MutexStoreSum(w)
    \/ MutexMax(w)
    \/ MutexUnlock(w)

AtomicWorker(w) ==
    \/ AtomicFor(w)
    \/ AtomicFetchAdd(w)
    \/ AtomicLoadMax(w)
    \/ AtomicWhile(w)
    \/ AtomicCasSuccess(w)
    \/ AtomicCasFail(w)

Worker(w) == MutexWorker(w) \/ AtomicWorker(w)

Next ==
    \/ SeqStep
    \/ SeqReport
    \/ MutexInit
    \/ MutexSpawn
    \/ MutexJoin
    \/ MutexReport
    \/ AtomicInit
    \/ AtomicSpawn
    \/ AtomicJoin
    \/ AtomicReport
    \/ \E w \in Threads : MutexFor(w)
    \/ \E w \in Threads : MutexLock(w)
    \/ \E w \in Threads : MutexLoadSum(w)
    \/ \E w \in Threads : MutexStoreSum(w)
    \/ \E w \in Threads : MutexMax(w)
    \/ \E w \in Threads : MutexUnlock(w)
    \/ \E w \in Threads : AtomicFor(w)
    \/ \E w \in Threads : AtomicFetchAdd(w)
    \/ \E w \in Threads : AtomicLoadMax(w)
    \/ \E w \in Threads : AtomicWhile(w)
    \/ \E w \in Threads : AtomicCasSuccess(w)
    \/ \E w \in Threads : AtomicCasFail(w)

Spec == Init /\ [][Next]_vars

\* ------------------------------------------------- thread start failure
\* mutant: the failure is caught and the accumulators are reported as they are
SpawnFail_report(here) ==
    /\ mpc = here
    /\ t < num_threads
    /\ mpc' = "aborted"
    /\ pc' = [w \in Threads |-> "killed"]
    /\ out' = Append(out, [strategy |-> here,
                           result |-> Combine(max_even, sum_even),
                           max |-> max_even])
    /\ UNCHANGED <<k, sum_even, max_even, mtx, chunk, t, atomic_sum, atomic_max>>
    /\ UNCHANGED <<inputVars, ghostVars, localVars>>

\* the constructor of thread t throws std::system_error; main has no
\* handler, so std::terminate ends the process with all its threads
SpawnFail(here) ==
    /\ mpc = here
    /\ t < num_threads
    /\ mpc' = "aborted"
    /\ pc' = [w \in Threads |-> "killed"]
    /\ UNCHANGED <<k, sum_even, max_even, mtx, chunk, t, atomic_sum, atomic_max, out>>
    /\ UNCHANGED <<inputVars, ghostVars, localVars>>

MutexSpawnFail == SpawnFail("m_spawn")

AtomicSpawnFail == SpawnFail("a_spawn")

NextFail ==
    \/ Next
    \/ MutexSpawnFail
    \/ AtomicSpawnFail

\* the program in an environment where starting a thread can fail
SpecFail == Init /\ [][NextFail]_vars

\* the steps of the main thread, and of the thread threads[w]
MainStep ==
    \/ SeqStep
    \/ SeqReport
    \/ MutexInit
    \/ MutexSpawn
    \/ MutexJoin
    \/ MutexReport
    \/ AtomicInit
    \/ AtomicSpawn
    \/ AtomicJoin
    \/ AtomicReport

WorkerStep(w) ==
    /\ w \in Threads
    /\ \/ MutexFor(w)
       \/ MutexLock(w)
       \/ MutexLoadSum(w)
       \/ MutexStoreSum(w)
       \/ MutexMax(w)
       \/ MutexUnlock(w)
       \/ AtomicFor(w)
       \/ AtomicFetchAdd(w)
       \/ AtomicLoadMax(w)
       \/ AtomicWhile(w)
       \/ AtomicCasSuccess(w)
       \/ AtomicCasFail(w)

\* Fair scheduling: the main thread and every spawned thread keep running
\* while they can take a step (a thread blocked on mtx or in join cannot).
\* compare_exchange_weak may fail spuriously but not forever: a thread that
\* attempts the exchange again and again while atomic_max holds current_max
\* eventually succeeds (strong fairness of the successful exchange).
FairInit == Init /\ n <= LiveN

FairSpec ==
    /\ FairInit
    /\ [][Next]_vars
    /\ WF_vars(MainStep)
    /\ \A w \in 0..(MaxW - 1) :
          /\ WF_vars(WorkerStep(w))
          /\ SF_vars(w \in Threads /\ AtomicCasSuccess(w))


\* ------------------------------------------------------ reference values
\* The positions of the even elements, their sum and their maximum, stated
\* on the input alone (not through the reducers' operators).
EvenPos == {j \in 1..n : arr[j] % 2 = 0}

RECURSIVE SumOver(_)
SumOver(S) ==
    IF S = {} THEN 0
    ELSE LET j == CHOOSE e \in S : TRUE IN arr[j] + SumOver(S \ {j})

TrueSum == SumOver(EvenPos)

TrueMax ==
    IF EvenPos = {} THEN -1
    ELSE LET j == CHOOSE e \in EvenPos : \A f \in EvenPos : arr[e] >= arr[f]
         IN arr[j]

\* the threads whose chunk holds an even element
Busy == {w \in Threads : \E j \in EvenPos : StartIdx(w) < j /\ j <= EndIdx(w)}

MutexPcs == {"m_for", "m_lock", "m_load", "m_store", "m_max", "m_unlock"}
CriticalPcs == {"m_load", "m_store", "m_max", "m_unlock"}
AtomicPcs == {"a_for", "a_add", "a_load", "a_while", "a_cas", "a_retry"}

\* ------------------------------------------------------------------ claims
\* C1: for every input and every interleaving of the workers, the combined
\* result 2*max - sum reported by the lock-based run and by the lock-free run
\* equals the one reported by the sequential run on the same input.
C1_Equivalence ==
    \A j \in 1..Len(out) : out[j].result = out[1].result

\* the three results are reported after two threads each folded even elements
C1_Witness ==
    /\ mpc = "done"
    /\ Len(out) = 3
    /\ Cardinality(Busy) >= 2
    /\ TrueSum > 0

\* C2: after a complete reduction by any of the three strategies, max is the
\* maximum even element of the sequence, or the sentinel -1 when there is
\* none, and sum is the sum of all even elements.
C2_ExactReduction ==
    /\ (mpc = "seq" /\ k = n) => (sum_even = TrueSum /\ max_even = TrueMax)
    /\ mpc = "m_result" => (sum_even = TrueSum /\ max_even = TrueMax)
    /\ mpc \in {"a_result", "done"} =>
          (atomic_sum = TrueSum /\ atomic_max = TrueMax)

\* the sequential loop has ended on an input whose maximum even element is
\* followed by a smaller even element
C2_Witness ==
    /\ mpc = "seq"
    /\ k = n
    /\ \E a, b \in EvenPos : a < b /\ arr[a] > arr[b]

\* C3: the num_threads chunk ranges [start_idx, end_idx) computed with
\* chunk = n / num_threads are pairwise disjoint and their union is [0, n).
C3_PartitionCoverage ==
    mpc \notin {"seq", "m_init"} =>
        /\ \A idx \in 0..(n - 1) :
              Cardinality({th \in Threads :
                  idx \in StartIdx(th)..(EndIdx(th) - 1)}) = 1
        /\ \A th \in Threads : StartIdx(th)..(EndIdx(th) - 1) \subseteq 0..(n - 1)
        /\ \A th \in Threads :
              pc[th] # "none" =>
                  start_idx[th] = StartIdx(th) /\ end_idx[th] = EndIdx(th)

\* all threads are spawned and n is not a multiple of num_threads
C3_Witness ==
    /\ mpc = "m_join"
    /\ num_threads >= 2
    /\ n > num_threads
    /\ n % num_threads # 0

\* C4: for an input with no even element, every strategy ends with
\* max = -1 and sum = 0 and reports the combined result -2.
C4_NoEvenSentinel ==
    (\A j \in 1..n : arr[j] % 2 = 1) =>
        /\ \A r \in 1..Len(out) : out[r].max = -1 /\ out[r].result = -2
        /\ mpc \in {"m_result", "a_init"} => (max_even = -1 /\ sum_even = 0)
        /\ mpc \in {"a_result", "done"} => (atomic_max = -1 /\ atomic_sum = 0)

\* the three results are reported for a non-empty input of odd elements
\* folded by two threads
C4_Witness ==
    /\ mpc = "done"
    /\ Len(out) = 3
    /\ n >= 2
    /\ num_threads = 2
    /\ \A j \in 1..n : arr[j] % 2 = 1

\* C5: in the lock-based run at most one worker is between acquiring and
\* releasing the mutex, the load and the store of sum_even += x of a worker
\* are not interleaved with a write of another worker, and no update is
\* lost: the final sum_even is the sum of every even element.
C5_MutualExclusion ==
    /\ Cardinality({w \in Threads : pc[w] \in CriticalPcs}) <= 1
    /\ \A w \in Threads : pc[w] \in CriticalPcs => mtx = w
    /\ \A w \in Threads : pc[w] = "m_store" => reg[w] = sum_even
    /\ mpc = "m_result" => sum_even = TrueSum

\* a worker is about to store sum_even while another worker waits for the
\* mutex, after an earlier update of sum_even
C5_Witness ==
    \E w, v \in Threads :
        /\ w # v
        /\ pc[w] = "m_store"
        /\ pc[v] = "m_lock"
        /\ sum_even > 0
        /\ x[w] > 0

\* C6: in each parallel strategy the main thread reads the accumulators
\* only when all num_threads workers of that strategy have terminated, and
\* no accumulator of a strategy changes after the main thread has read it.
C6_ReadAfterJoin ==
    /\ [](/\ mpc \in {"m_result", "a_init"} =>
                \A w \in Threads : pc[w] = "m_done"
          /\ mpc \in {"a_result", "done"} =>
                \A w \in Threads : pc[w] = "a_done")
    /\ [][/\ Len(out) >= 2 => (sum_even' = sum_even /\ max_even' = max_even)
          /\ Len(out) >= 3 =>
                (atomic_sum' = atomic_sum /\ atomic_max' = atomic_max)]_vars

\* the main thread is about to read the atomic accumulators that two
\* threads have updated
C6_Witness ==
    /\ mpc = "a_result"
    /\ Cardinality(Busy) >= 2
    /\ atomic_sum > 0

\* C7: in the lock-free run atomic_max never decreases, and every successful
\* compare-exchange replaces the stored value by a strictly greater one.
C7_MaxMonotonic ==
    [][/\ atomic_max' >= atomic_max
       /\ \A w \in Threads :
             (pc[w] = "a_cas" /\ pc'[w] = "a_for") => atomic_max' > atomic_max]_vars

\* a worker attempts the exchange for an element smaller than the maximum
\* another worker has installed since this worker loaded current_max
C7_Witness ==
    \E w \in Threads :
        /\ pc[w] = "a_cas"
        /\ current_max[w] < atomic_max
        /\ x[w] < atomic_max

\* C8: under fair scheduling every worker finishes its chunk, the main
\* thread gets past both join loops, and the program completes after
\* reporting all three results.
C8_Termination ==
    <>(/\ mpc = "done"
       /\ Len(out) = 3
       /\ \A w \in Threads : pc[w] = "a_done")

\* the program has completed after two threads each folded even elements
\* in both parallel strategies
C8_Witness ==
    /\ mpc = "done"
    /\ Len(out) = 3
    /\ Cardinality(Busy) >= 2
    /\ \A w \in Threads : pc[w] = "a_done"

\* C9: in the lock-free run, once a worker has left the retry loop for an
\* even element x, atomic_max >= x holds then and in every later state.
C9_NoLostMax ==
    \A w \in Threads :
        pc[w] \in AtomicPcs \cup {"a_done"} =>
            \A idx \in start_idx[w]..(i[w] - 1) :
                At(idx) % 2 = 0 => atomic_max >= At(idx)

\* a worker has left the retry loop for an even element, after another
\* worker was handed that element (greater than its expected value, smaller
\* than its own element) by a failed attempt and is about to retry
C9_Witness ==
    \E w, v \in Threads :
        /\ w # v
        /\ pc[w] \in AtomicPcs \cup {"a_done"}
        /\ i[w] > start_idx[w]
        /\ At(i[w] - 1) % 2 = 0
        /\ pc[v] = "a_retry"
        /\ current_max[v] = At(i[w] - 1)
        /\ current_max[v] > Sentinel
        /\ x[v] > current_max[v]

\* a step of worker w in which compare_exchange_weak returns false
CasFails(w) == pc[w] = "a_cas" /\ pc'[w] = "a_retry"

\* C10 as stated: an attempt never fails while atomic_max still equals the
\* value the worker expected.
C10_Original ==
    [][\A w \in Threads : CasFails(w) => atomic_max # current_max[w]]_vars

\* C10 as amended: a failed attempt leaves atomic_max unchanged and reloads
\* current_max with the value of atomic_max; when that value differs from
\* the expected one it is strictly greater (another worker installed it
\* since this worker last observed atomic_max); the attempt may also fail
\* while atomic_max equals the expected value (spurious failure).
C10_FailReloads ==
    [][\A w \in Threads :
          CasFails(w) =>
              /\ atomic_max' = atomic_max
              /\ current_max'[w] = atomic_max
              /\ atomic_max # current_max[w] => atomic_max > current_max[w]]_vars

\* an attempt of a worker has failed and handed it a value that is no
\* longer smaller than its element: another worker installed that value
\* after this worker found its element greater than the expected value
C10_Witness ==
    \E w \in Threads :
        /\ pc[w] = "a_retry"
        /\ current_max[w] = atomic_max
        /\ x[w] <= current_max[w]

\* C11: in the lock-based run a worker acquires the mutex exactly once for
\* each even element of its chunk and releases it before reading the next
\* element; it never acquires it for an odd element, never holds it across
\* two loop iterations, and does not hold it when it terminates.
C11_LockPerEvenElement ==
    /\ [](\A w \in Threads :
            /\ pc[w] \in {"m_lock"} \cup CriticalPcs =>
                  /\ i[w] < end_idx[w]
                  /\ At(i[w]) % 2 = 0
                  /\ x[w] = At(i[w])
            /\ mtx = w => pc[w] \in CriticalPcs
            /\ pc[w] \in {"m_for", "m_done", "none"} => mtx # w
            /\ pc[w] = "m_done" =>
                  \A idx \in start_idx[w]..(end_idx[w] - 1) :
                      folds[idx] = (IF At(idx) % 2 = 0 THEN 1 ELSE 0))
    /\ [][\A w \in Threads :
            /\ (mtx # w /\ mtx' = w) =>
                  (pc[w] = "m_lock" /\ At(i[w]) % 2 = 0 /\ folds[i[w]] = 0)
            /\ (mtx = w /\ mtx' # w) =>
                  (mtx' = Free /\ folds[i[w]] = 1 /\ i'[w] = i[w] + 1)
            /\ (pc[w] \in MutexPcs /\ i'[w] # i[w]) =>
                  /\ i'[w] = i[w] + 1
                  /\ \/ At(i[w]) % 2 = 1 /\ mtx # w /\ mtx' = mtx
                     \/ At(i[w]) % 2 = 0 /\ mtx = w /\ mtx' = Free]_vars

\* a worker whose chunk holds an odd and an even element has terminated
\* while another worker holds the mutex for its element
C11_Witness ==
    \E w, v \in Threads :
        /\ w # v
        /\ pc[w] = "m_done"
        /\ \E a, b \in start_idx[w]..(end_idx[w] - 1) :
              At(a) % 2 = 0 /\ At(b) % 2 = 1
        /\ mtx = v
        /\ pc[v] = "m_unlock"

\* C12: when the first worker of the lock-based run is spawned, sum_even = 0
\* and max_even = -1, and when the first worker of the lock-free run is
\* spawned, atomic_sum = 0 and atomic_max = -1, whatever the previous
\* strategy left.
C12_FreshAccumulators ==
    /\ (mpc = "m_spawn" /\ t = 0) =>
          /\ sum_even = 0
          /\ max_even = -1
          /\ \A w \in Threads : pc[w] = "none"
    /\ (mpc = "a_spawn" /\ t = 0) =>
          /\ atomic_sum = 0
          /\ atomic_max = -1
          /\ \A w \in Threads : pc[w] = "none"

\* the first lock-free worker is about to be spawned after the sequential
\* and the lock-based run both ended with a positive sum and maximum
C12_Witness ==
    /\ mpc = "a_spawn"
    /\ t = 0
    /\ Len(out) = 2
    /\ out[1].max > 0
    /\ sum_even > 0
    /\ max_even > 0

\* the threads spawned so far in the running strategy
Spawned == {w \in Threads : pc[w] # "none"}

\* C13: each parallel strategy spawns exactly num_threads workers, worker t
\* processes exactly the indices of chunk t, and over the whole run of a
\* strategy every index in [0, n) is read by exactly one worker exactly
\* once (and added to the sum exactly once when its element is even).
C13_EachIndexOnce ==
    /\ mpc \in {"m_spawn", "a_spawn"} => Spawned = 0..(t - 1)
    /\ mpc \in {"m_join", "m_result", "a_join", "a_result", "done"} =>
          (Spawned = Threads /\ Cardinality(Spawned) = num_threads)
    /\ \A idx \in 0..(n - 1) :
          /\ Len(reads[idx]) <= 1
          /\ \A w \in Threads :
                reads[idx] = <<w>> => idx \in StartIdx(w)..(EndIdx(w) - 1)
          /\ folds[idx] <= Len(reads[idx])
          /\ At(idx) % 2 = 1 => folds[idx] = 0
    /\ \A w \in Threads :
          pc[w] \in {"m_done", "a_done"} =>
              \A idx \in StartIdx(w)..(EndIdx(w) - 1) : reads[idx] = <<w>>
    /\ mpc \in {"m_result", "a_result", "done"} =>
          \A idx \in 0..(n - 1) :
              /\ Len(reads[idx]) = 1
              /\ folds[idx] = (IF At(idx) % 2 = 0 THEN 1 ELSE 0)

\* the lock-free run has been joined on an input that does not divide
\* evenly among two workers and holds even and odd elements
C13_Witness ==
    /\ mpc = "a_result"
    /\ num_threads = 2
    /\ n % 2 = 1
    /\ n > 2
    /\ \E a, b \in 1..n : arr[a] % 2 = 0 /\ arr[b] % 2 = 1

\* the spawned threads whose chunk is empty
EmptyChunk == {w \in Spawned : start_idx[w] = end_idx[w]}

\* C14: when n < num_threads (chunk = 0) the workers 0..num_threads-2 get
\* the empty range [0, 0) and the last worker gets [0, n); no worker ever
\* has start_idx > end_idx; a worker with an empty chunk updates no
\* accumulator and acquires no lock; for n = 1 there are num_threads - 1
\* empty chunks and one chunk [0, 1).
C14_SmallInput ==
    /\ \A w \in Spawned : start_idx[w] <= end_idx[w]
    /\ n < num_threads =>
          /\ mpc \notin {"seq", "m_init"} => chunk = 0
          /\ \A w \in Spawned :
                /\ start_idx[w] = 0
                /\ end_idx[w] = (IF w = num_threads - 1 THEN n ELSE 0)
    /\ \A w \in EmptyChunk :
          /\ pc[w] \in {"m_for", "m_done", "a_for", "a_done"}
          /\ mtx # w
          /\ \A idx \in 0..(n - 1) : reads[idx] # <<w>>
    /\ (n = 1 /\ Spawned = Threads) =>
          /\ Cardinality(EmptyChunk) = num_threads - 1
          /\ start_idx[num_threads - 1] = 0
          /\ end_idx[num_threads - 1] = 1

\* the lock-based run has been joined for one even element and two workers
C14_Witness ==
    /\ mpc = "m_result"
    /\ n = 1
    /\ num_threads = 2
    /\ sum_even > 0
    /\ pc[0] = "m_done"
    /\ folds[0] = 1

\* C15: if starting a worker thread fails in a parallel strategy, the run
\* is aborted: the spawn is not retried (no step follows the abort) and no
\* combined result or maximum is reported for that strategy or a later one.
C15_SpawnFailureAborts ==
    /\ [](mpc = "aborted" =>
            /\ Len(out) \in {1, 2}
            /\ \A r \in 1..Len(out) : out[r].strategy \in {"seq", "mutex"}
            /\ \A w \in Threads : pc[w] = "killed")
    /\ [][/\ mpc # "aborted"
          /\ mpc' = "aborted" =>
                /\ mpc \in {"m_spawn", "a_spawn"}
                /\ out' = out
                /\ Len(out) = (IF mpc = "m_spawn" THEN 1 ELSE 2)]_vars

\* the start of the second lock-free worker failed after the first one had
\* added an element to atomic_sum
C15_Witness ==
    /\ mpc = "aborted"
    /\ Len(out) = 2
    /\ t = 1
    /\ atomic_sum > 0

\* the threads of each parallel strategy that are still running
MutexAlive == {w \in Threads : pc[w] \in MutexPcs}
AtomicAlive == {w \in Threads : pc[w] \in AtomicPcs}

\* C16: the strategies run strictly one after another: lock-based workers
\* exist only after the sequential result is reported, no lock-free worker
\* is spawned while a lock-based worker is running, workers of two
\* strategies are never alive together, and each strategy's workers are
\* newly spawned.
C16_StrategiesInSequence ==
    /\ [](/\ MutexAlive # {} =>
                (mpc \in {"m_spawn", "m_join"} /\ Len(out) = 1)
          /\ AtomicAlive # {} =>
                (mpc \in {"a_spawn", "a_join"} /\ Len(out) = 2)
          /\ mpc \in {"a_init", "a_spawn", "a_join", "a_result", "done"} =>
                MutexAlive = {}
          /\ \A w, v \in Threads :
                pc[w] \in AtomicPcs \cup {"a_done"} =>
                    pc[v] \notin MutexPcs \cup {"m_done"})
    /\ [][\A w \in Threads :
            (pc'[w] \in {"m_for", "a_for"} /\ pc[w] \notin MutexPcs \cup AtomicPcs)
                => pc[w] = "none"]_vars

\* a lock-free worker is in its retry loop while the main thread is still
\* spawning the lock-free workers, after a lock-based run with two workers
C16_Witness ==
    /\ mpc = "a_spawn"
    /\ t = 1
    /\ Len(out) = 2
    /\ pc[0] = "a_cas"
    /\ pc[1] = "none"
    /\ sum_even > 0

\* the values of an int of the model
IntRange == (-(2 ^ (IntBits - 1)))..(2 ^ (IntBits - 1) - 1)

\* a long long expression whose stored value is its mathematical value
NoWrap(v) == AsLongLong(v) = v

\* C17: the sum accumulator and the combined result never overflow: every
\* addition to the running sum and every combined result is stored
\* unwrapped in every reachable state, 2*max evaluated as long long does not
\* wrap for any int max, and ArraySize elements of at most maxVal sum to
\* less than 2^24 * 2^14 = 2^38 < 2^63.
C17_NoOverflow ==
    /\ (mpc = "seq" /\ k < n /\ At(k) % 2 = 0) => NoWrap(sum_even + At(k))
    /\ \A w \in Threads :
          /\ pc[w] = "m_store" => NoWrap(reg[w] + x[w])
          /\ pc[w] = "a_add" => NoWrap(atomic_sum + x[w])
    /\ sum_even \in 0..(n * MaxVal)
    /\ atomic_sum \in 0..(n * MaxVal)
    /\ ((mpc = "seq" /\ k = n) \/ mpc = "m_result") =>
          (NoWrap(2 * max_even) /\ NoWrap(2 * max_even - sum_even))
    /\ mpc = "a_result" =>
          (NoWrap(2 * atomic_max) /\ NoWrap(2 * atomic_max - atomic_sum))
    /\ \A r \in 1..Len(out) : out[r].result = 2 * out[r].max - TrueSum
    /\ \A mx \in IntRange : NoWrap(2 * mx)
    /\ ArraySize < 2 ^ 24 /\ maxVal < 2 ^ 14 /\ 24 + 14 < 63

\* the lock-based run ended with a sum that does not fit an int
C17_Witness ==
    /\ mpc = "m_result"
    /\ sum_even \notin IntRange
    /\ num_threads = 2

\* the indices whose element has been added to the sum of the running
\* strategy, the sum of a set of indices, and the maximum of their elements
Folded == {idx \in 0..(n - 1) : folds[idx] > 0}

SumAt(S) == SumOver({idx + 1 : idx \in S})

MaxAt(S) ==
    IF S = {} THEN -1
    ELSE LET m == CHOOSE e \in S : \A f \in S : At(e) >= At(f) IN At(m)

\* the even indices a worker has moved past
Passed ==
    {idx \in 0..(n - 1) :
        /\ At(idx) % 2 = 0
        /\ \E w \in Spawned : idx \in start_idx[w]..(i[w] - 1)}

\* C18: in the lock-based run, in every reachable state where the mutex is
\* free, sum_even is the sum of exactly the even elements whose critical
\* section has completed and max_even is the larger of -1 and the maximum
\* of those same elements.
C18_ConsistentPair ==
    (mpc \in {"m_spawn", "m_join", "m_result"} /\ mtx = Free) =>
        /\ Folded = Passed
        /\ \A idx \in Folded : folds[idx] = 1
        /\ sum_even = SumAt(Folded)
        /\ max_even = MaxAt(Folded)

\* the mutex is free between two critical sections: an element is folded
\* and a greater one is not yet
C18_Witness ==
    /\ mpc = "m_join"
    /\ mtx = Free
    /\ Folded # {}
    /\ max_even < TrueMax
    /\ \E w \in Threads : pc[w] = "m_lock"

\* the even indices for which a lock-free worker has executed fetch_add
Added ==
    {idx \in 0..(n - 1) :
        /\ At(idx) % 2 = 0
        /\ \E w \in Spawned :
              \/ idx \in start_idx[w]..(i[w] - 1)
              \/ idx = i[w] /\ pc[w] \in {"a_load", "a_while", "a_cas", "a_retry"}}

\* C19: in the lock-free run atomic_max is -1 or the value of an even
\* element of the input, atomic_sum is the sum of exactly the even elements
\* for which a worker has executed fetch_add, each counted once, and a step
\* of the retry loop adds nothing to atomic_sum.
C19_AtomicAccumulators ==
    /\ [](/\ atomic_max = -1 \/ \E j \in EvenPos : arr[j] = atomic_max
          /\ mpc \in {"seq", "m_init", "m_spawn", "m_join", "m_result", "a_init"}
                => (atomic_sum = 0 /\ atomic_max = -1)
          /\ mpc \in {"a_spawn", "a_join", "a_result", "done"} =>
                /\ Folded = Added
                /\ \A idx \in Folded : folds[idx] = 1
                /\ atomic_sum = SumAt(Folded))
    /\ [][\A w \in Threads :
            (pc[w] \in {"a_while", "a_cas", "a_retry"} /\ pc'[w] # pc[w]) =>
                (atomic_sum' = atomic_sum /\ folds' = folds)]_vars

\* a worker whose element is counted once in a positive atomic_sum is about
\* to retry the exchange after a failed attempt
C19_Witness ==
    \E w \in Threads :
        /\ pc[w] = "a_retry"
        /\ x[w] > current_max[w]
        /\ current_max[w] > Sentinel
        /\ folds[i[w]] = 1
        /\ atomic_sum > 0

====
